---- MODULE Spec2Model ----
(***************************************************************************)
(* Model of the operation-to-declaration emitter of openapi-ts             *)
(* (packages/openapi-ts/src/utils/write/services.ts) and of the media-type *)
(* selector getContent.                                                    *)
(*                                                                         *)
(* JavaScript values are represented as follows:                           *)
(*   - undefined / null           Undefined / NullString where a string is *)
(*                                expected, Null where an object is        *)
(*   - a string                   a TLA+ string                            *)
(*   - an array                   a sequence                               *)
(*   - an object literal          a sequence of [key, value] records in    *)
(*                                the engine's own-property order          *)
(***************************************************************************)
EXTENDS Integers, Sequences, FiniteSets, TLC

VARIABLES
    content,        \* getContent: the content map, entries in creation order
    contentResult,  \* getContent: the value returned, NotCalled before the call
    config,         \* getConfig(): the active configuration
    client,         \* the Client record; client.types backs the naming resolver
    operation,      \* the Operation handed to the per-operation builders
    called,         \* the per-operation builders that have returned
    params,         \* toOperationParamType's return value
    options,        \* toRequestOptions' return value
    optionImports,  \* names toRequestOptions passed to onClientImport
    returnType,     \* toOperationReturnType's return value
    statements,     \* toOperationStatements' return value
    files,          \* processServices: the output files (services, types)
    pc,             \* processServices: the position of its loops
    sink,           \* the add and addImport calls made on files.services
    imports,        \* processServices: the type names forwarded to onImport
    clientImports,  \* processServices: the names forwarded to onClientImport
    run,            \* which run of the generator this is
    firstRun        \* the calls the first run made

contentVars == <<content, contentResult>>

builderVars ==
    <<operation, called, params, options, optionImports, returnType, statements>>

operationVars == <<config, client, builderVars>>

serviceVars == <<files, pc, sink, imports, clientImports, run, firstRun>>

vars == <<contentVars, operationVars, serviceVars>>

\* ------------------------------------------------------------------ bounds

MaxEntries == 3

\* --------------------------------------------------------- JavaScript values

Undefined == "<undefined>"

Null == [null |-> TRUE]

NotCalled == [called |-> FALSE]

\* null in a string-typed slot.
NullString == "<null>"

\* Truthiness of a string-typed value: '', null and undefined are falsy.
Truthy(s) == s # Undefined /\ s # NullString /\ s # ""

RECURSIVE SelectSeq2(_, _)
\* Array.prototype.filter with a set-membership test.
SelectSeq2(s, keep) ==
    IF s = <<>> THEN <<>>
    ELSE IF Head(s) \in keep
         THEN <<Head(s)>> \o SelectSeq2(Tail(s), keep)
         ELSE SelectSeq2(Tail(s), keep)

\* Array.prototype.find over a sequence of strings with a set-membership
\* test: the first element that satisfies the test, or Undefined.
FindFirst(s, ok) ==
    IF \E i \in 1..Len(s) : s[i] \in ok
    THEN s[CHOOSE i \in 1..Len(s) :
               s[i] \in ok /\ \A j \in 1..(i - 1) : s[j] \notin ok]
    ELSE Undefined

\* ------------------------------------------------------- media-type selector

BASIC_MEDIA_TYPES ==
    << "application/json-patch+json",
       "application/json",
       "application/x-www-form-urlencoded",
       "text/json",
       "text/plain",
       "multipart/form-data",
       "multipart/mixed",
       "multipart/related",
       "multipart/batch" >>

\* Keys that are canonical array indices: the engine enumerates these first,
\* in ascending numeric order, before the string keys in creation order.
ArrayIndexKeys == {"2", "10"}

ToIndex(k) == IF k = "2" THEN 2 ELSE 10

OtherKeys == {"application/xml", ""}

MediaKeys ==
    {"application/json", "text/plain", "multipart/form-data", "multipart/batch"}
        \cup OtherKeys \cup ArrayIndexKeys

Schemas == {"SchemaA", "SchemaB"}

\* The keys of the entries, in creation order.
EntryKeys(c) == [i \in 1..Len(c) |-> c[i].key]

RECURSIVE SortedIndexKeys(_)
\* The array-index keys of a set, ascending by numeric value.
SortedIndexKeys(ks) ==
    IF ks = {} THEN <<>>
    ELSE LET least == CHOOSE k \in ks : \A o \in ks : ToIndex(k) <= ToIndex(o)
         IN  <<least>> \o SortedIndexKeys(ks \ {least})

\* Object.keys(content): integer-like keys ascending, then the remaining keys
\* in creation order.
ObjectKeys(c) ==
    LET created == EntryKeys(c)
        present == {created[i] : i \in 1..Len(created)}
    IN  SortedIndexKeys(present \cap ArrayIndexKeys)
            \o SelectSeq2(created, present \ ArrayIndexKeys)

\* content[mediaType]?.schema
SchemaOf(c, mediaType) ==
    IF \E i \in 1..Len(c) : c[i].key = mediaType
    THEN c[CHOOSE i \in 1..Len(c) : c[i].key = mediaType].schema
    ELSE Undefined

isDefined(value) == value # Undefined

\* Faulty variant of getContent: the priority list is never consulted.
getContent_NoPriority(c) ==
    LET hasSchema == {mediaType \in MediaKeys : isDefined(SchemaOf(c, mediaType))}
        otherMediaType == FindFirst(ObjectKeys(c), hasSchema)
    IN  IF Truthy(otherMediaType)
        THEN [mediaType |-> otherMediaType, schema |-> SchemaOf(c, otherMediaType)]
        ELSE Null

getContent(c) ==
    LET hasSchema == {mediaType \in MediaKeys : isDefined(SchemaOf(c, mediaType))}
        basicMedia == FindFirst(BASIC_MEDIA_TYPES, hasSchema)
        otherMediaTypes == ObjectKeys(c)
        otherMediaType == FindFirst(otherMediaTypes, hasSchema)
    IN  IF Truthy(basicMedia)
        THEN [mediaType |-> basicMedia, schema |-> SchemaOf(c, basicMedia)]
        ELSE IF Truthy(otherMediaType)
        THEN [mediaType |-> otherMediaType, schema |-> SchemaOf(c, otherMediaType)]
        ELSE Null

\* The caller builds the content map: content[key] = { schema }.  A property
\* that already exists keeps its place.
SetEntry(key, schema) ==
    /\ contentResult = NotCalled
    /\ \/ /\ \E i \in 1..Len(content) : content[i].key = key
          /\ content' = [i \in 1..Len(content) |->
                            IF content[i].key = key
                            THEN [key |-> key, schema |-> schema]
                            ELSE content[i]]
       \/ /\ \A i \in 1..Len(content) : content[i].key # key
          /\ Len(content) < MaxEntries
          /\ content' = Append(content, [key |-> key, schema |-> schema])
    /\ UNCHANGED <<contentResult, operationVars, serviceVars>>

CallGetContent ==
    /\ contentResult = NotCalled
    /\ contentResult' = getContent(content)
    /\ UNCHANGED <<content, operationVars, serviceVars>>

ContentIdle ==
    /\ content = <<>>
    /\ contentResult = NotCalled

\* ------------------------------------------------ configuration and resolver

\* isStandaloneClient(config): the standalone clients are the '@hey-api/...'
\* packages.
StandaloneClients == {"@hey-api/client-fetch"}

isStandaloneClient(cfg) == cfg.client \in StandaloneClients

\* camelcase(name, { pascalCase: true }) on the operation names of the model:
\* a camel-case name gets its first letter in upper case.
PascalCase(name) ==
    CASE name = "getUser" -> "GetUser"
      [] name = "deleteUser" -> "DeleteUser"
      [] name = "uploadFile" -> "UploadFile"

operationDataTypeName(name) == PascalCase(name) \o "Data"

operationErrorTypeName(name) == PascalCase(name) \o "Error"

operationResponseTypeName(name) == PascalCase(name) \o "Response"

\* A nameTransformer argument is passed as the suffix it appends.
ApplyTransformer(nameTransformer, name) ==
    CASE nameTransformer = "Data" -> operationDataTypeName(name)
      [] nameTransformer = "Error" -> operationErrorTypeName(name)
      [] nameTransformer = "Response" -> operationResponseTypeName(name)

\* uniqueTypeName({ client, meta, nameTransformer }).name without `create`:
\* the transformed name when client.types registers it for this reference,
\* the empty string otherwise.
uniqueTypeName(cl, meta, nameTransformer) ==
    LET name == ApplyTransformer(nameTransformer, meta.name)
    IN  IF name \in cl.types THEN name ELSE ""

\* The meta argument the builders pass: { $ref: operation.name, name: operation.name }.
OperationMeta(op) == [ref |-> op.name, name |-> op.name]

\* ------------------------------------------------------------- JSON defaults

\* A parameter default is a JSON value [kind, val] (val: its source text), or
\* UndefinedValue when the parameter declares none.
UndefinedValue == [kind |-> "undefined", val |-> ""]

EmptyObject == [kind |-> "object", val |-> "{}"]

\* JSON.stringify(value, null, 4) of a defined JSON value.
JSONstringify(value) ==
    CASE value.kind = "string" -> "\"" \o value.val \o "\""
      [] value.kind = "object" -> value.val
      [] value.kind = "number" -> value.val
      [] value.kind = "boolean" -> value.val
      [] value.kind = "null" -> "null"

getDefaultPrintable(p) ==
    IF p.default = UndefinedValue THEN Undefined ELSE JSONstringify(p.default)

\* ----------------------------------------------------------- parameter binder

\* The standalone branch: the single `options` parameter.
StandaloneParams(importedType, isRequired) ==
    << [ isRequired |-> isRequired,
         name |-> "options",
         type |-> IF Truthy(importedType)
                  THEN "Options<" \o importedType \o ">"
                  ELSE "Options" ] >>

\* Faulty variant of PositionalParams: the required flag ignores the default.
PositionalParams_FlagOnly(importedType, parameters) ==
    [ i \in 1..Len(parameters) |->
        LET p == parameters[i]
        IN  [ default |-> p.default,
              isRequired |-> p.isRequired,
              name |-> p.name,
              type |-> importedType \o "['" \o p.name \o "']" ] ]

\* The legacy configuration without useOptions: one parameter per declared
\* operation parameter.
PositionalParams(importedType, parameters) ==
    [ i \in 1..Len(parameters) |->
        LET p == parameters[i]
            typePath == importedType \o "['" \o p.name \o "']"
        IN  [ default |-> p.default,
              isRequired |->
                  (IF ~p.isRequired /\ ~Truthy(getDefaultPrintable(p))
                   THEN "?" ELSE "") = "",
              name |-> p.name,
              type |-> typePath ] ]

\* Faulty variant of DataParams: the default is tested the wrong way round.
DataParams_Inverted(importedType, isRequired) ==
    << [ default |-> IF isRequired THEN EmptyObject ELSE UndefinedValue,
         name |-> "data",
         type |-> importedType ] >>

\* The legacy configuration with useOptions: the single `data` parameter.
DataParams(importedType, isRequired) ==
    << [ default |-> IF isRequired THEN UndefinedValue ELSE EmptyObject,
         name |-> "data",
         type |-> importedType ] >>

toOperationParamType(cfg, cl, op) ==
    LET importedType == uniqueTypeName(cl, OperationMeta(op), "Data")
        isRequired == \E i \in 1..Len(op.parameters) : op.parameters[i].isRequired
    IN  IF isStandaloneClient(cfg)
        THEN StandaloneParams(importedType, isRequired)
        ELSE IF Len(op.parameters) = 0
        THEN <<>>
        ELSE IF ~cfg.useOptions
        THEN PositionalParams(importedType, op.parameters)
        ELSE DataParams(importedType, isRequired)

CallToOperationParamType ==
    /\ operation # Null
    /\ called = {}
    /\ params' = toOperationParamType(config, client, operation)
    /\ called' = called \cup {"toOperationParamType"}
    /\ UNCHANGED <<config, client, operation, options, optionImports,
                   returnType, statements, contentVars, serviceVars>>

\* ----------------------------------------------------- request-options builder

\* The emitter's print layer is handed plain descriptions; the model keeps them
\* as tagged records.
StringNode(text) == [kind |-> "string", text |-> text]

ObjectNode(props) == [kind |-> "object", props |-> props]

Identifier(text) == [kind |-> "identifier", text |-> text]

\* obj[key] = value for a string key: an existing property keeps its place;
\* a new integer-like key goes among the integer-like keys, which come first
\* in ascending numeric order; any other new key goes last.
SetProperty(obj, key, value) ==
    IF \E i \in 1..Len(obj) : obj[i].key = key
    THEN [i \in 1..Len(obj) |->
            IF obj[i].key = key THEN [key |-> key, value |-> value] ELSE obj[i]]
    ELSE IF key \in ArrayIndexKeys
    THEN LET isBelow(e) == e.key \in ArrayIndexKeys /\ ToIndex(e.key) < ToIndex(key)
         IN  SelectSeq(obj, LAMBDA e : isBelow(e))
                 \o <<[key |-> key, value |-> value]>>
                 \o SelectSeq(obj, LAMBDA e : ~isBelow(e))
    ELSE Append(obj, [key |-> key, value |-> value])

\* obj[code] = value for an integer key: integer keys are kept in ascending
\* order.
SetIndexProperty(obj, code, value) ==
    IF \E i \in 1..Len(obj) : obj[i].key = code
    THEN [i \in 1..Len(obj) |->
            IF obj[i].key = code THEN [key |-> code, value |-> value] ELSE obj[i]]
    ELSE LET below == SelectSeq(obj, LAMBDA e : e.key < code)
             above == SelectSeq(obj, LAMBDA e : e.key > code)
         IN  below \o <<[key |-> code, value |-> value]>> \o above

\* unique: (value, index, arr) => arr.indexOf(value) === index, as a filter.
RECURSIVE Unique(_)
Unique(s) ==
    IF s = <<>> THEN <<>>
    ELSE LET front == Unique(SubSeq(s, 1, Len(s) - 1))
             last == s[Len(s)]
         IN  IF \E i \in 1..(Len(s) - 1) : s[i] = last
             THEN front
             ELSE Append(front, last)

\* The wire names of the model that are valid identifiers; escapeName quotes
\* every other name ('x-id', '2', '10', '').
ValidNames ==
    {"id", "limit", "session", "file", "requestBody", "options", "formData", "xId"}

escapeName(value) == IF value \in ValidNames THEN value ELSE "'" \o value \o "'"

RECURSIVE toObj(_, _)
\* parameters.reduce(..., {}) of the legacy request options.
toObj(cfg, parameters) ==
    IF parameters = <<>> THEN <<>>
    ELSE LET prev == toObj(cfg, SubSeq(parameters, 1, Len(parameters) - 1))
             curr == parameters[Len(parameters)]
             key == curr.prop
             value == IF cfg.useOptions THEN "data." \o curr.name ELSE curr.name
         IN  IF key = value
             THEN SetProperty(prev, key, key)
             ELSE IF escapeName(key) = key
             THEN SetProperty(prev, key, value)
             ELSE SetProperty(prev, "'" \o key \o "'", value)

RECURSIVE ErrorsObject(_)
\* operation.errors.forEach((err) => { errors[err.code] = err.description ?? '' })
ErrorsObject(errors) ==
    IF errors = <<>> THEN <<>>
    ELSE LET prev == ErrorsObject(SubSeq(errors, 1, Len(errors) - 1))
             err == errors[Len(errors)]
         IN  SetIndexProperty(prev, err.code,
                 IF err.description \in {Undefined, NullString}
                 THEN "" ELSE err.description)

\* The standalone branch of toRequestOptions.
StandaloneRequestOptions(op) ==
    LET bodyParameters ==
            SelectSeq(op.parameters, LAMBDA p : p.in = "body" \/ p.in = "formData")
        mediaTypes == [i \in 1..Len(bodyParameters) |-> bodyParameters[i].mediaType]
        contents == Unique(SelectSeq(mediaTypes, Truthy))
        isFormData == Len(contents) = 1 /\ contents[1] = "multipart/form-data"
        obj == <<[spread |-> "options"]>>
                   \o (IF isFormData THEN <<[spread |-> "formDataBodySerializer"]>> ELSE <<>>)
                   \o <<[key |-> "url", value |-> op.path]>>
    IN  [ node |-> [kind |-> "object", obj |-> obj],
          clientImports |-> IF isFormData THEN <<"formDataBodySerializer">> ELSE <<>> ]

\* The non-standalone branch of toRequestOptions builds a keyed object, its
\* properties in the order the assignments create them.  First method, url
\* and the per-location groups.
LegacyGroups(cfg, op) ==
    LET o0 == << [key |-> "method", value |-> StringNode(op.method)],
                 [key |-> "url", value |-> StringNode(op.path)] >>
        o1 == IF Len(op.parametersPath) > 0
              THEN SetProperty(o0, "path", ObjectNode(toObj(cfg, op.parametersPath)))
              ELSE o0
        o2 == IF Len(op.parametersCookie) > 0
              THEN SetProperty(o1, "cookies", ObjectNode(toObj(cfg, op.parametersCookie)))
              ELSE o1
        o3 == IF Len(op.parametersHeader) > 0
              THEN SetProperty(o2, "headers", ObjectNode(toObj(cfg, op.parametersHeader)))
              ELSE o2
        o4 == IF Len(op.parametersQuery) > 0
              THEN SetProperty(o3, "query", ObjectNode(toObj(cfg, op.parametersQuery)))
              ELSE o3
    IN  IF Len(op.parametersForm) > 0
        THEN SetProperty(o4, "formData", ObjectNode(toObj(cfg, op.parametersForm)))
        ELSE o4

\* Then the single body/form-data parameter and its media type.
LegacyBody(cfg, op, obj) ==
    LET bodyRef == IF op.parametersBody = Null THEN ""
                   ELSE IF cfg.useOptions
                        THEN "data." \o op.parametersBody.name
                        ELSE op.parametersBody.name
        o6 == IF op.parametersBody # Null /\ op.parametersBody.in = "formData"
              THEN SetProperty(obj, "formData", StringNode(bodyRef))
              ELSE obj
        o7 == IF op.parametersBody # Null /\ op.parametersBody.in = "body"
              THEN SetProperty(o6, "body", StringNode(bodyRef))
              ELSE o6
    IN  IF op.parametersBody # Null /\ Truthy(op.parametersBody.mediaType)
        THEN SetProperty(o7, "mediaType", StringNode(op.parametersBody.mediaType))
        ELSE o7

\* Faulty variant of LegacyResponse: errors is emitted even when no error is
\* declared.
LegacyResponse_AlwaysErrors(op, obj) ==
    LET o9 == IF Truthy(op.responseHeader)
              THEN SetProperty(obj, "responseHeader", StringNode(op.responseHeader))
              ELSE obj
    IN  SetProperty(o9, "errors", ObjectNode(ErrorsObject(op.errors)))

\* Then the response header and the declared errors.
LegacyResponse(op, obj) ==
    LET o9 == IF Truthy(op.responseHeader)
              THEN SetProperty(obj, "responseHeader", StringNode(op.responseHeader))
              ELSE obj
    IN  IF Len(op.errors) > 0
        THEN SetProperty(o9, "errors", ObjectNode(ErrorsObject(op.errors)))
        ELSE o9

LegacyRequestObject(cfg, op) ==
    LegacyResponse(op, LegacyBody(cfg, op, LegacyGroups(cfg, op)))

toRequestOptions(cfg, op) ==
    IF isStandaloneClient(cfg)
    THEN StandaloneRequestOptions(op)
    ELSE [ node |-> [ kind |-> "object",
                      identifiers |->
                          <<"body", "cookies", "formData", "headers", "path", "query">>,
                      obj |-> LegacyRequestObject(cfg, op),
                      shorthand |-> TRUE ],
           clientImports |-> <<>> ]

\* ------------------------------------------------------ return-type synthesizer

typedefBasic(name, args) == [kind |-> "basic", name |-> name, args |-> args]

typedefUnion(types) == [kind |-> "union", types |-> types]

\* Faulty variant of toOperationReturnType: the result wrapper is applied
\* after the async wrapper.
toOperationReturnType_WrapperLast(cfg, cl, op) ==
    LET void == typedefBasic("void", <<>>)
        importedType == uniqueTypeName(cl, OperationMeta(op), "Response")
        declared == IF Len(op.results) > 0 THEN typedefUnion(<<importedType>>) ELSE void
        async == IF cfg.client = "angular"
                 THEN typedefBasic("Observable", <<declared>>)
                 ELSE typedefBasic("CancelablePromise", <<declared>>)
    IN  IF cfg.useOptions /\ cfg.services.response = "response"
        THEN typedefBasic("ApiResult", <<async>>)
        ELSE async

toOperationReturnType(cfg, cl, op) ==
    LET void == typedefBasic("void", <<>>)
        importedType == uniqueTypeName(cl, OperationMeta(op), "Response")
        declared == IF Len(op.results) > 0 THEN typedefUnion(<<importedType>>) ELSE void
        wrapped == IF cfg.useOptions /\ cfg.services.response = "response"
                   THEN typedefBasic("ApiResult", <<declared>>)
                   ELSE declared
    IN  IF cfg.client = "angular"
        THEN typedefBasic("Observable", <<wrapped>>)
        ELSE typedefBasic("CancelablePromise", <<wrapped>>)

\* --------------------------------------------------------- statement synthesizer

\* String.prototype.toLocaleLowerCase on the HTTP verbs.
toLocaleLowerCase(method) ==
    CASE method = "GET" -> "get"
      [] method = "POST" -> "post"
      [] method = "DELETE" -> "delete"
      [] method = "PUT" -> "put"
      [] method = "PATCH" -> "patch"
      [] method = "HEAD" -> "head"
      [] method = "OPTIONS" -> "options"
      [] method = "TRACE" -> "trace"
      [] method = "CONNECT" -> "connect"

returnFunctionCall(args, name) ==
    [kind |-> "returnFunctionCall", args |-> args, name |-> name]

returnFunctionCallTyped(args, name, types) ==
    [kind |-> "returnFunctionCall", args |-> args, name |-> name, types |-> types]

\* Faulty variant of StandaloneCallTypes: the two type arguments are swapped.
StandaloneCallTypes_Swapped(cl, op) ==
    LET errorType == uniqueTypeName(cl, OperationMeta(op), "Error")
        responseType == IF Len(op.results) > 0
                        THEN uniqueTypeName(cl, OperationMeta(op), "Response")
                        ELSE "void"
    IN  IF Truthy(errorType) /\ Truthy(responseType)
        THEN <<errorType, responseType>>
        ELSE IF Truthy(errorType)
        THEN <<"unknown", errorType>>
        ELSE IF Truthy(responseType)
        THEN <<responseType>>
        ELSE <<>>

\* The explicit type arguments of the standalone call.
StandaloneCallTypes(cl, op) ==
    LET errorType == uniqueTypeName(cl, OperationMeta(op), "Error")
        responseType == IF Len(op.results) > 0
                        THEN uniqueTypeName(cl, OperationMeta(op), "Response")
                        ELSE "void"
    IN  IF Truthy(errorType) /\ Truthy(responseType)
        THEN <<responseType, errorType>>
        ELSE IF Truthy(errorType)
        THEN <<"unknown", errorType>>
        ELSE IF Truthy(responseType)
        THEN <<responseType>>
        ELSE <<>>

\* Faulty variant of toOperationStatements: the custom handle name is tested
\* before the standalone style.
toOperationStatements_NameFirst(cfg, cl, op, opts) ==
    IF Truthy(cfg.name)
    THEN << returnFunctionCall(<<opts>>, "this.httpRequest.request") >>
    ELSE IF isStandaloneClient(cfg)
    THEN << returnFunctionCallTyped(
                <<opts>>,
                "(options?.client ?? client)." \o toLocaleLowerCase(op.method),
                <<>>) >>
    ELSE IF cfg.client = "angular"
    THEN << returnFunctionCall(
                <<Identifier("OpenAPI"), Identifier("this.http"), opts>>, "__request") >>
    ELSE << returnFunctionCall(<<Identifier("OpenAPI"), opts>>, "__request") >>

\* toOperationStatements, given the value its toRequestOptions call returned.
toOperationStatements(cfg, cl, op, opts) ==
    IF isStandaloneClient(cfg)
    THEN << returnFunctionCallTyped(
                <<opts>>,
                "(options?.client ?? client)." \o toLocaleLowerCase(op.method),
                StandaloneCallTypes(cl, op)) >>
    ELSE IF Truthy(cfg.name)
    THEN << returnFunctionCall(<<opts>>, "this.httpRequest.request") >>
    ELSE IF cfg.client = "angular"
    THEN << returnFunctionCall(
                <<Identifier("OpenAPI"), Identifier("this.http"), opts>>, "__request") >>
    ELSE << returnFunctionCall(<<Identifier("OpenAPI"), opts>>, "__request") >>

\* The declared return type of the emitted callable: none for the standalone
\* style.
CallToOperationReturnType ==
    /\ operation # Null
    /\ called = {"toOperationParamType"}
    /\ returnType' = IF isStandaloneClient(config)
                     THEN Null
                     ELSE toOperationReturnType(config, client, operation)
    /\ called' = called \cup {"toOperationReturnType"}
    /\ UNCHANGED <<config, client, operation, params, options, optionImports,
                   statements, contentVars, serviceVars>>

\* toOperationStatements starts by building the request options.
CallToRequestOptions ==
    /\ operation # Null
    /\ called = {"toOperationParamType", "toOperationReturnType"}
    /\ LET built == toRequestOptions(config, operation)
       IN  /\ options' = built.node
           /\ optionImports' = optionImports \o built.clientImports
    /\ called' = called \cup {"toRequestOptions"}
    /\ UNCHANGED <<config, client, operation, params, returnType, statements,
                   contentVars, serviceVars>>

CallToOperationStatements ==
    /\ operation # Null
    /\ "toRequestOptions" \in called
    /\ "toOperationStatements" \notin called
    /\ statements' = toOperationStatements(config, client, operation, options)
    /\ called' = called \cup {"toOperationStatements"}
    /\ UNCHANGED <<config, client, operation, params, options, optionImports,
                   returnType, contentVars, serviceVars>>

\* ----------------------------------------------------------- service processor

\* generateImport: the names handed to onImport, none when there is no meta or
\* the resolver returns no name.
generateImport(cl, meta, nameTransformer) ==
    IF meta = Null
    THEN <<>>
    ELSE LET name == uniqueTypeName(cl, meta, nameTransformer)
         IN  IF Truthy(name) THEN <<name>> ELSE <<>>

\* Faulty variant of OperationImports: the response type is registered before
\* the error type.
OperationImports_ResponseFirst(cfg, cl, op) ==
    (IF Len(op.parameters) > 0
     THEN generateImport(cl, OperationMeta(op), "Data") ELSE <<>>)
    \o (IF Len(op.results) > 0
        THEN generateImport(cl, OperationMeta(op), "Response") ELSE <<>>)
    \o (IF isStandaloneClient(cfg)
        THEN generateImport(cl, OperationMeta(op), "Error") ELSE <<>>)

\* The body of processService's first loop for one operation: the names it
\* forwards to onImport, in call order.
OperationImports(cfg, cl, op) ==
    (IF Len(op.parameters) > 0
     THEN generateImport(cl, OperationMeta(op), "Data") ELSE <<>>)
    \o (IF isStandaloneClient(cfg)
        THEN generateImport(cl, OperationMeta(op), "Error") ELSE <<>>)
    \o (IF Len(op.results) > 0
        THEN generateImport(cl, OperationMeta(op), "Response") ELSE <<>>)

\* false in a string-typed slot.
False == "<false>"

\* escapeComment on the free texts of the model: a comment terminator loses
\* its slash; a text without comment delimiters or line breaks is unchanged.
escapeComment(value) ==
    CASE value = "Deletes */ a user" -> "Deletes * a user"
      [] OTHER -> value

\* left && right on string-typed values: the left value when it is falsy.
LogicalAnd(left, right) == IF Truthy(left) THEN right ELSE left

\* `${description ? escapeComment(description) : ''}`
CommentText(description) ==
    IF Truthy(description) THEN escapeComment(description) ELSE ""

toOperationComment(cfg, op) ==
    LET head == << IF op.deprecated THEN "@deprecated" ELSE False,
                   LogicalAnd(op.summary, escapeComment(op.summary)),
                   LogicalAnd(op.description, escapeComment(op.description)) >>
        paramLines ==
            IF Len(op.parameters) > 0
            THEN IF cfg.useOptions
                 THEN <<"@param data The data for the request.">>
                          \o [i \in 1..Len(op.parameters) |->
                                "@param data." \o op.parameters[i].name \o " "
                                    \o CommentText(op.parameters[i].description)]
                 ELSE [i \in 1..Len(op.parameters) |->
                         "@param " \o op.parameters[i].name \o " "
                             \o CommentText(op.parameters[i].description)]
            ELSE <<>>
    IN  IF isStandaloneClient(cfg)
        THEN head
        ELSE head \o paramLines
                 \o [i \in 1..Len(op.results) |->
                       "@returns " \o op.results[i].type \o " "
                           \o CommentText(op.results[i].description)]
                 \o <<"@throws ApiError">>

\* The free-standing callable of one operation:
\* compiler.export.const({ comment, expression: compiler.types.function(...), name }).
OperationConst(cfg, cl, op) ==
    [ kind |-> "const",
      comment |-> toOperationComment(cfg, op),
      name |-> op.name,
      expression |->
          [ kind |-> "function",
            parameters |-> toOperationParamType(cfg, cl, op),
            returnType |-> IF isStandaloneClient(cfg)
                           THEN Null
                           ELSE toOperationReturnType(cfg, cl, op),
            statements |->
                toOperationStatements(cfg, cl, op, toRequestOptions(cfg, op).node) ] ]

\* The method of one operation: compiler.class.method(...).
OperationMethod(cfg, cl, op) ==
    [ kind |-> "method",
      accessLevel |-> "public",
      comment |-> toOperationComment(cfg, op),
      isStatic |-> cfg.name = Undefined /\ cfg.client # "angular",
      name |-> op.name,
      parameters |-> toOperationParamType(cfg, cl, op),
      returnType |-> IF isStandaloneClient(cfg)
                     THEN Null
                     ELSE toOperationReturnType(cfg, cl, op),
      statements |->
          toOperationStatements(cfg, cl, op, toRequestOptions(cfg, op).node) ]

\* compiler.class.constructor with the single injected handle.
HandleConstructor(name, type) ==
    [ kind |-> "constructor",
      multiLine |-> FALSE,
      parameters |-> << [ accessLevel |-> "public", isReadOnly |-> TRUE,
                          name |-> name, type |-> type ] >> ]

\* Faulty variant of ClassMembers: the constructor is pushed, not unshifted.
ClassMembers_ConstructorLast(cfg, cl, operations) ==
    LET members == [i \in 1..Len(operations) |-> OperationMethod(cfg, cl, operations[i])]
    IN  IF Truthy(cfg.name)
        THEN members \o <<HandleConstructor("httpRequest", "BaseHttpRequest")>>
        ELSE IF cfg.client = "angular"
        THEN members \o <<HandleConstructor("http", "HttpClient")>>
        ELSE members

\* The members of the aggregate: the methods, with the constructor unshifted
\* to the front when a handle is injected.
ClassMembers(cfg, cl, operations) ==
    LET members == [i \in 1..Len(operations) |-> OperationMethod(cfg, cl, operations[i])]
    IN  IF Truthy(cfg.name)
        THEN <<HandleConstructor("httpRequest", "BaseHttpRequest")>> \o members
        ELSE IF cfg.client = "angular"
        THEN <<HandleConstructor("http", "HttpClient")>> \o members
        ELSE members

transformServiceName(name) == name \o "Service"

\* compiler.class.create(...) for one service.
ServiceClass(cfg, cl, service) ==
    [ kind |-> "class",
      decorator |-> IF cfg.client = "angular"
                    THEN [name |-> "Injectable", providedIn |-> "root"]
                    ELSE Null,
      members |-> ClassMembers(cfg, cl, service.operations),
      name |-> transformServiceName(service.name) ]

RECURSIVE ClientImportsOf(_, _)
\* The names the operations of a list pass to onClientImport while their
\* statements are built, in call order.
ClientImportsOf(cfg, operations) ==
    IF operations = <<>> THEN <<>>
    ELSE toRequestOptions(cfg, Head(operations)).clientImports
             \o ClientImportsOf(cfg, Tail(operations))

\* ------------------------------------------------------- services orchestrator

ImportItem(name, asType, alias) == [name |-> name, asType |-> asType, alias |-> alias]

AddImport(items, from) == [call |-> "addImport", items |-> items, from |-> from]

AddNode(node) == [call |-> "add", node |-> node]

\* The file-level imports of the runtime infrastructure, as addImport calls in
\* call order.
InfrastructureImports(cfg, clientImported) ==
    IF isStandaloneClient(cfg)
    THEN << AddImport(
                << ImportItem("client", FALSE, ""), ImportItem("Options", TRUE, "") >>
                    \o [i \in 1..Len(Unique(clientImported)) |->
                          ImportItem(Unique(clientImported)[i], FALSE, "")],
                cfg.client) >>
    ELSE (IF cfg.client = "angular"
          THEN <<AddImport(<<ImportItem("Injectable", FALSE, "")>>, "@angular/core")>>
                   \o (IF ~Truthy(cfg.name)
                       THEN <<AddImport(<<ImportItem("HttpClient", FALSE, "")>>,
                                        "@angular/common/http")>>
                       ELSE <<>>)
                   \o <<AddImport(<<ImportItem("Observable", TRUE, "")>>, "rxjs")>>
          ELSE <<AddImport(<<ImportItem("CancelablePromise", TRUE, "")>>,
                           "./core/CancelablePromise")>>)
         \o (IF cfg.services.response = "response"
             THEN <<AddImport(<<ImportItem("ApiResult", TRUE, "")>>, "./core/ApiResult")>>
             ELSE <<>>)
         \o (IF Truthy(cfg.name)
             THEN <<AddImport(<<ImportItem("BaseHttpRequest", cfg.client # "angular", "")>>,
                              "./core/BaseHttpRequest")>>
             ELSE << AddImport(<<ImportItem("OpenAPI", FALSE, "")>>, "./core/OpenAPI"),
                     AddImport(<<ImportItem("request", FALSE, "__request")>>,
                               "./core/request") >>)

\* The import of the models the services require.
TypeImports(imported, types) ==
    AddImport([i \in 1..Len(Unique(imported)) |-> ImportItem(Unique(imported)[i], TRUE, "")],
              "./" \o types.name)

RECURSIVE Normalize(_, _, _)
\* The next loop position at or after p: exhausted loops are left.
Normalize(cfg, services, p) ==
    IF p.phase = "imports"
    THEN IF p.svc > Len(services)
         THEN [phase |-> "infrastructure", svc |-> 0, op |-> 0]
         ELSE IF p.op > Len(services[p.svc].operations)
         THEN Normalize(cfg, services, [phase |-> "emit", svc |-> p.svc, op |-> 1])
         ELSE p
    ELSE IF p.phase = "emit" /\ ~cfg.services.asClass
              /\ p.op > Len(services[p.svc].operations)
    THEN Normalize(cfg, services, [phase |-> "imports", svc |-> p.svc + 1, op |-> 1])
    ELSE p

Idle == [phase |-> "idle", svc |-> 0, op |-> 0]

Done == [phase |-> "done", svc |-> 0, op |-> 0]

\* processServices is entered: without a services file it returns at once;
\* otherwise the import lists start empty and the first service is processed.
EnterProcessServices ==
    /\ pc.phase = "start"
    /\ imports' = <<>>
    /\ clientImports' = <<>>
    /\ pc' = IF files.services = Null
             THEN Done
             ELSE Normalize(config, client.services,
                            [phase |-> "imports", svc |-> 1, op |-> 1])
    /\ UNCHANGED <<files, sink, run, firstRun, operationVars, contentVars>>

\* processService, first loop: one operation's type names are registered.
RegisterImports ==
    /\ pc.phase = "imports"
    /\ LET op == client.services[pc.svc].operations[pc.op]
       IN  imports' = imports \o OperationImports(config, client, op)
    /\ pc' = Normalize(config, client.services, [pc EXCEPT !.op = pc.op + 1])
    /\ UNCHANGED <<files, sink, clientImports, run, firstRun, operationVars, contentVars>>

\* processService without asClass: one operation becomes an exported callable.
EmitOperation ==
    /\ pc.phase = "emit"
    /\ ~config.services.asClass
    /\ LET op == client.services[pc.svc].operations[pc.op]
       IN  /\ sink' = Append(sink, AddNode(OperationConst(config, client, op)))
           /\ clientImports' = clientImports \o ClientImportsOf(config, <<op>>)
    /\ pc' = Normalize(config, client.services, [pc EXCEPT !.op = pc.op + 1])
    /\ UNCHANGED <<files, imports, run, firstRun, operationVars, contentVars>>

\* processService with asClass: the service becomes one class.
EmitClass ==
    /\ pc.phase = "emit"
    /\ config.services.asClass
    /\ LET service == client.services[pc.svc]
       IN  /\ sink' = Append(sink, AddNode(ServiceClass(config, client, service)))
           /\ clientImports' = clientImports \o ClientImportsOf(config, service.operations)
    /\ pc' = Normalize(config, client.services,
                       [phase |-> "imports", svc |-> pc.svc + 1, op |-> 1])
    /\ UNCHANGED <<files, imports, run, firstRun, operationVars, contentVars>>

\* The imports of the packages and core files.
AddInfrastructureImports ==
    /\ pc.phase = "infrastructure"
    /\ sink' = sink \o InfrastructureImports(config, clientImports)
    /\ pc' = [phase |-> "types", svc |-> 0, op |-> 0]
    /\ UNCHANGED <<files, imports, clientImports, run, firstRun, operationVars,
                   contentVars>>

\* The import of the models, when the types file exists and is not empty.
AddTypeImports ==
    /\ pc.phase = "types"
    /\ sink' = IF files.types # Null /\ ~files.types.isEmpty
               THEN Append(sink, TypeImports(imports, files.types))
               ELSE sink
    /\ pc' = Done
    /\ UNCHANGED <<files, imports, clientImports, run, firstRun, operationVars,
                   contentVars>>

\* The generator is run again on the same input, with fresh output files.
RunAgain ==
    /\ pc.phase = "done"
    /\ run = 1
    /\ run' = 2
    /\ firstRun' = sink
    /\ sink' = <<>>
    /\ pc' = [phase |-> "start", svc |-> 0, op |-> 0]
    /\ UNCHANGED <<files, imports, clientImports, operationVars, contentVars>>

\* ------------------------------------------------------------ input universes

MaxParams == 2

Config(clientName, useOptions, name, asClass, response) ==
    [ client |-> clientName,
      useOptions |-> useOptions,
      name |-> name,
      services |-> [asClass |-> asClass, response |-> response] ]

Param(name, prop, location, isRequired, default, mediaType) ==
    [ name |-> name, prop |-> prop, in |-> location, isRequired |-> isRequired,
      default |-> default, mediaType |-> mediaType, description |-> Undefined ]

\* The parameters of one location, in declaration order.
ParametersIn(parameters, location) ==
    SelectSeq(parameters, LAMBDA p : p.in = location)

\* An Operation as the parsing layer produces it: the per-location lists are
\* the declared parameters grouped by location.
Operation(name, method, path, parameters, parametersBody, results, errors, header) ==
    [ name |-> name, method |-> method, path |-> path,
      parameters |-> parameters,
      parametersPath |-> ParametersIn(parameters, "path"),
      parametersCookie |-> ParametersIn(parameters, "cookie"),
      parametersHeader |-> ParametersIn(parameters, "header"),
      parametersQuery |-> ParametersIn(parameters, "query"),
      parametersForm |-> ParametersIn(parameters, "formData"),
      parametersBody |-> parametersBody,
      results |-> results, errors |-> errors,
      responseHeader |-> header,
      deprecated |-> FALSE, summary |-> Undefined, description |-> Undefined ]

Clients == {"@hey-api/client-fetch", "angular", "fetch"}

ConfigNames == {Undefined, "", "ApiClient"}

ResponseModes == {"body", "response"}

OperationNames == {"getUser", "deleteUser"}

Suffixes == {"Data", "Error", "Response"}

TypeNames == {ApplyTransformer(s, n) : s \in Suffixes, n \in OperationNames}

\* Sequences over S of length at most n.
SeqUpTo(S, n) == UNION {[1..k -> S] : k \in 0..n}

DefaultValues ==
    { UndefinedValue,
      [kind |-> "string", val |-> ""],
      [kind |-> "number", val |-> "0"] }

Result200 == [code |-> 200, type |-> "User", description |-> "The user"]

Result204 == [code |-> 204, type |-> "void", description |-> Undefined]

ResultLists == {<<>>, <<Result200>>, <<Result200, Result204>>}

Error404 == [code |-> 404, description |-> "Not found"]

Error500 == [code |-> 500, description |-> Undefined]

ErrorLists == {<<>>, <<Error404>>, <<Error500, Error404>>}

\* Parameters that differ in what the parameter binder reads.
BinderParams ==
    { Param(n, n, "query", r, d, Undefined) :
        n \in {"id", "limit"}, r \in BOOLEAN, d \in DefaultValues }

BinderInputs ==
    { [ config |-> Config(c, u, Undefined, FALSE, "body"),
        client |-> [types |-> t, services |-> <<>>],
        operation |->
            Operation("getUser", "GET", "/users", ps, Null, <<>>, <<>>, NullString) ] :
        c \in Clients, u \in BOOLEAN,
        t \in {{}, {"GetUserData"}},
        ps \in SeqUpTo(BinderParams, MaxParams) }

\* Every configuration, over operations with and without parameters and
\* results.
StyleInputs ==
    { [ config |-> Config(c, u, n, a, r),
        client |-> [types |-> t, services |-> <<>>],
        operation |->
            Operation("getUser", m, "/users", ps, Null, rs, <<>>, NullString) ] :
        c \in Clients, u \in BOOLEAN, n \in ConfigNames, a \in BOOLEAN,
        r \in ResponseModes,
        t \in SUBSET {"GetUserError", "GetUserResponse"},
        m \in {"GET", "POST"},
        ps \in {<<>>, <<Param("options", "options", "query", FALSE, UndefinedValue, Undefined)>>},
        rs \in ResultLists }

\* Parameters that differ in what the request-options builder reads.
LocationParams ==
    { Param("id", "id", "path", TRUE, UndefinedValue, Undefined),
      Param("limit", "limit", "query", FALSE, UndefinedValue, Undefined),
      Param("xId", "x-id", "header", FALSE, UndefinedValue, Undefined),
      Param("session", "session", "cookie", FALSE, UndefinedValue, Undefined) }

BodyParams ==
    { Param("requestBody", "requestBody", l, TRUE, UndefinedValue, m) :
        l \in {"formData", "body"},
        m \in {Undefined, "application/json", "multipart/form-data"} }

RequestParams == LocationParams \cup BodyParams

\* One parameter of every location, in an order that is not the key order of
\* the request options.
AllLocations ==
    << Param("limit", "limit", "query", FALSE, UndefinedValue, Undefined),
       Param("file", "file", "formData", FALSE, UndefinedValue, Undefined),
       Param("requestBody", "requestBody", "body", TRUE, UndefinedValue, "application/json"),
       Param("xId", "x-id", "header", FALSE, UndefinedValue, Undefined),
       Param("session", "session", "cookie", FALSE, UndefinedValue, Undefined),
       Param("id", "id", "path", TRUE, UndefinedValue, Undefined) >>

\* Query parameters whose wire names are integer-like and equal to their
\* names, declared in an order that is not the key order of the object.
IndexKeyed ==
    << Param("limit", "limit", "query", FALSE, UndefinedValue, Undefined),
       Param("10", "10", "query", FALSE, UndefinedValue, Undefined),
       Param("2", "2", "query", FALSE, UndefinedValue, Undefined) >>

\* The single body/form-data parameter of a parameter list: none, or one of
\* its body or form-data parameters.
BodyChoices(ps) ==
    {Null} \cup {ps[i] : i \in {j \in 1..Len(ps) : ps[j].in \in {"body", "formData"}}}

RequestOperations(lists, errorLists, headers) ==
    { Operation("deleteUser", "DELETE", "/users/{id}", pb[1], pb[2], <<>>, es, h) :
        pb \in UNION {{<<ps, b>> : b \in BodyChoices(ps)} : ps \in lists},
        es \in errorLists,
        h \in headers }

RequestInputs ==
    { [ config |-> Config(c, u, Undefined, FALSE, "body"),
        client |-> [types |-> {}, services |-> <<>>],
        operation |-> op ] :
        c \in {"@hey-api/client-fetch", "fetch"}, u \in BOOLEAN,
        op \in RequestOperations(SeqUpTo(RequestParams, MaxParams), {<<>>}, {NullString})
                 \cup RequestOperations({<<>>, AllLocations}, ErrorLists,
                                        {NullString, "", "Location"})
                 \cup RequestOperations({IndexKeyed}, {<<>>}, {NullString}) }

\* The input families of the operation builders.
OperationInputs == <<BinderInputs, StyleInputs, RequestInputs>>

MaxOperations == 2

PathId ==
    [Param("id", "id", "path", TRUE, UndefinedValue, Undefined)
        EXCEPT !.description = "The id"]

UploadBody ==
    Param("formData", "formData", "formData", TRUE, UndefinedValue, "multipart/form-data")

\* The operations services are made of: with parameters and results, with
\* neither, and with a multipart body and no result.
ServiceOperations ==
    { [Operation("getUser", "GET", "/users/{id}", <<PathId>>, Null, <<Result200>>,
                 <<Error404>>, NullString)
          EXCEPT !.summary = "Get a user"],
      [Operation("deleteUser", "DELETE", "/users", <<>>, Null, <<>>, <<>>, NullString)
          EXCEPT !.deprecated = TRUE, !.summary = "", !.description = "Deletes */ a user"],
      Operation("uploadFile", "POST", "/files", <<UploadBody>>, UploadBody, <<>>,
                <<>>, NullString) }

OperationLists == SeqUpTo(ServiceOperations, MaxOperations)

\* No service, one service or two services, named by position; the second
\* service has at most one operation.
ServiceLists ==
    {<<>>}
        \cup {<<[name |-> "Users", operations |-> a]>> : a \in OperationLists}
        \cup { << [name |-> "Users", operations |-> a],
                  [name |-> "Files", operations |-> b] >> :
                 a \in OperationLists, b \in SeqUpTo(ServiceOperations, 1) }

AllTypeNames ==
    {ApplyTransformer(s, n) : s \in Suffixes, n \in {"getUser", "deleteUser", "uploadFile"}}

TypeRegistries == {AllTypeNames, AllTypeNames \ {"GetUserResponse", "UploadFileData"}}

TypesFile == [name |-> "types.gen", isEmpty |-> FALSE]

FileSets ==
    { [services |-> Null, types |-> TypesFile],
      [services |-> [name |-> "services.gen"], types |-> Null],
      [services |-> [name |-> "services.gen"], types |-> [TypesFile EXCEPT !.isEmpty = TRUE]],
      [services |-> [name |-> "services.gen"], types |-> TypesFile] }

ServiceConfigs ==
    { Config(c, ur[1], n, a, ur[2]) :
        c \in Clients, n \in ConfigNames, a \in BOOLEAN,
        ur \in {<<TRUE, "body">>, <<FALSE, "response">>} }

ServiceInputs ==
    { [ config |-> Config(c, TRUE, n, a, "body"),
        client |-> [types |-> t, services |-> ss],
        files |-> [services |-> [name |-> "services.gen"], types |-> TypesFile] ] :
        c \in Clients, n \in ConfigNames, a \in BOOLEAN,
        t \in TypeRegistries, ss \in ServiceLists }
    \cup
    { [ config |-> cfg,
        client |-> [types |-> AllTypeNames, services |-> ss],
        files |-> f ] :
        cfg \in ServiceConfigs, f \in FileSets,
        ss \in { s \in ServiceLists :
                   Len(s) = 2 /\ \A i \in 1..2 : Len(s[i].operations) = 1 } }

ServicesIdle ==
    /\ files = Null
    /\ pc = Idle
    /\ sink = <<>>
    /\ imports = <<>>
    /\ clientImports = <<>>
    /\ run = 0
    /\ firstRun = <<>>

BuildersIdle ==
    /\ operation = Null
    /\ called = {}
    /\ params = <<>>
    /\ options = Null
    /\ optionImports = <<>>
    /\ returnType = Null
    /\ statements = <<>>

OperationIdle ==
    /\ config = Null
    /\ client = Null
    /\ BuildersIdle

InitOperation ==
    /\ ContentIdle
    /\ ServicesIdle
    /\ \E family \in 1..Len(OperationInputs) : \E input \in OperationInputs[family] :
          /\ config = input.config
          /\ client = input.client
          /\ operation = input.operation
    /\ called = {}
    /\ params = <<>>
    /\ options = Null
    /\ optionImports = <<>>
    /\ returnType = Null
    /\ statements = <<>>

NextOperation ==
    \/ CallToOperationParamType
    \/ CallToOperationReturnType
    \/ CallToRequestOptions
    \/ CallToOperationStatements

SpecOperation == InitOperation /\ [][NextOperation]_vars

InitServices ==
    /\ ContentIdle
    /\ BuildersIdle
    /\ \E input \in ServiceInputs :
          /\ config = input.config
          /\ client = input.client
          /\ files = input.files
    /\ pc = [phase |-> "start", svc |-> 0, op |-> 0]
    /\ sink = <<>>
    /\ imports = <<>>
    /\ clientImports = <<>>
    /\ run = 1
    /\ firstRun = <<>>

NextServices ==
    \/ EnterProcessServices
    \/ RegisterImports
    \/ EmitOperation
    \/ EmitClass
    \/ AddInfrastructureImports
    \/ AddTypeImports
    \/ RunAgain

SpecServices == InitServices /\ [][NextServices]_vars

\* ------------------------------------------------------------ specifications

InitContent ==
    /\ ContentIdle
    /\ OperationIdle
    /\ ServicesIdle

NextContent ==
    \/ \E key \in MediaKeys, schema \in Schemas \cup {Undefined} : SetEntry(key, schema)
    \/ CallGetContent

SpecContent == InitContent /\ [][NextContent]_vars

\* ===================================================================== claims

\* ------------------------------------------------------------------------ C1

C1_PriorityList ==
    << "application/json-patch+json", "application/json",
       "application/x-www-form-urlencoded", "text/json", "text/plain",
       "multipart/form-data", "multipart/mixed", "multipart/related",
       "multipart/batch" >>

\* The priority list as the claim words it: five types, then three multipart
\* variants.
C1_OriginalPriorityList == SubSeq(C1_PriorityList, 1, 8)

C1_HasSchema(c, key) ==
    \E i \in 1..Len(c) : c[i].key = key /\ c[i].schema # Undefined

C1_Stored(c, key) == c[CHOOSE i \in 1..Len(c) : c[i].key = key].schema

C1_Position(c, key) == CHOOSE i \in 1..Len(c) : c[i].key = key

\* key1 comes before key2 when the engine enumerates the map's keys.
C1_Precedes(c, key1, key2) ==
    IF key1 \in ArrayIndexKeys /\ key2 \in ArrayIndexKeys
    THEN ToIndex(key1) < ToIndex(key2)
    ELSE IF key1 \in ArrayIndexKeys \/ key2 \in ArrayIndexKeys
    THEN key1 \in ArrayIndexKeys
    ELSE C1_Position(c, key1) < C1_Position(c, key2)

C1_FirstOf(list, c) ==
    list[CHOOSE i \in 1..Len(list) :
            /\ C1_HasSchema(c, list[i])
            /\ \A j \in 1..(i - 1) : ~C1_HasSchema(c, list[j])]

C1_Bearing(c) == {c[i].key : i \in {j \in 1..Len(c) : c[j].schema # Undefined}}

C1_Expected(c) ==
    IF \E i \in 1..Len(C1_PriorityList) : C1_HasSchema(c, C1_PriorityList[i])
    THEN LET m == C1_FirstOf(C1_PriorityList, c)
         IN  [mediaType |-> m, schema |-> C1_Stored(c, m)]
    ELSE IF C1_Bearing(c) = {}
    THEN Null
    ELSE LET m == CHOOSE k \in C1_Bearing(c) :
                     \A o \in C1_Bearing(c) \ {k} : C1_Precedes(c, k, o)
         IN  IF m = "" THEN Null ELSE [mediaType |-> m, schema |-> C1_Stored(c, m)]

\* C1 (as amended): getContent returns the first media type of the priority
\* list (JSON-patch, JSON, URL-form-encoded, text/JSON, text/plain, then the
\* four multipart variants form-data, mixed, related, batch) whose entry has a
\* defined schema; if no priority-list entry has one, it takes the first key in
\* the map's key enumeration order (integer-like keys ascending, then the other
\* keys in insertion order) whose entry has a defined schema, and returns it
\* unless it is the empty string; it returns null when no entry has a defined
\* schema or when that first key is the empty string.  The returned schema is
\* the schema stored under the returned media type.
C1_Selector ==
    contentResult # NotCalled => contentResult = C1_Expected(content)

C1_OriginalExpected(c) ==
    IF \E i \in 1..Len(C1_OriginalPriorityList) :
           C1_HasSchema(c, C1_OriginalPriorityList[i])
    THEN LET m == C1_FirstOf(C1_OriginalPriorityList, c)
         IN  [mediaType |-> m, schema |-> C1_Stored(c, m)]
    ELSE IF C1_Bearing(c) = {}
    THEN Null
    ELSE LET m == CHOOSE k \in C1_Bearing(c) :
                     \A o \in C1_Bearing(c) \ {k} :
                         C1_Position(c, k) < C1_Position(c, o)
         IN  [mediaType |-> m, schema |-> C1_Stored(c, m)]

\* C1 as first stated: three multipart variants, fallback in insertion order,
\* null exactly when no entry has a defined schema.
C1_Original ==
    contentResult # NotCalled => contentResult = C1_OriginalExpected(content)

\* A map whose first-created key is a non-priority type with a schema, and
\* which is answered with the fourth multipart variant.
C1_Witness ==
    /\ contentResult # NotCalled
    /\ contentResult # Null
    /\ Len(content) >= 2
    /\ content[1].key = "application/xml"
    /\ content[1].schema # Undefined
    /\ contentResult.mediaType = "multipart/batch"

\* ------------------------------------------------------------------------ C2

C2_LegacyOptions ==
    /\ "toOperationParamType" \in called
    /\ ~isStandaloneClient(config)
    /\ config.useOptions

C2_AnyRequired ==
    \E i \in 1..Len(operation.parameters) : operation.parameters[i].isRequired

C2_SingleData ==
    /\ Len(params) = 1
    /\ params[1].name = "data"
    /\ "default" \in DOMAIN params[1]
    /\ (params[1].default = EmptyObject <=> ~C2_AnyRequired)
    /\ (C2_AnyRequired => params[1].default = UndefinedValue)

\* C2 (as amended): under the legacy-options style, for every operation with at
\* least one declared parameter the returned list has length 1, its parameter
\* is named `data`, and its default is `{}` exactly when no declared parameter
\* is required (no default otherwise); for an operation with no declared
\* parameters the returned list is empty.
C2_DataParameter ==
    C2_LegacyOptions =>
        IF Len(operation.parameters) = 0 THEN params = <<>> ELSE C2_SingleData

\* C2 as first stated: the list always has length 1.
C2_Original == C2_LegacyOptions => C2_SingleData

C2_Witness ==
    /\ C2_LegacyOptions
    /\ Len(operation.parameters) > 0
    /\ ~C2_AnyRequired
    /\ Len(params) = 1
    /\ params[1].default = EmptyObject

\* ------------------------------------------------------------------------ C3

C3_LegacyPositional ==
    /\ "toOperationParamType" \in called
    /\ ~isStandaloneClient(config)
    /\ ~config.useOptions

C3_OnePerParameter ==
    /\ Len(params) = Len(operation.parameters)
    /\ \A i \in 1..Len(params) :
          /\ params[i].name = operation.parameters[i].name
          /\ params[i].default = operation.parameters[i].default

\* C3 (as amended): under the legacy-positional style the returned list has one
\* entry per declared parameter, in the operation's parameter order; entry i is
\* named after parameter i and carries parameter i's default; entry i is
\* required exactly when parameter i is required or declares a default.
C3_Positional ==
    C3_LegacyPositional =>
        /\ C3_OnePerParameter
        /\ \A i \in 1..Len(params) :
              params[i].isRequired
                  <=> \/ operation.parameters[i].isRequired
                      \/ operation.parameters[i].default # UndefinedValue

\* C3 as first stated: entry i carries parameter i's own required flag.
C3_Original ==
    C3_LegacyPositional =>
        /\ C3_OnePerParameter
        /\ \A i \in 1..Len(params) :
              params[i].isRequired = operation.parameters[i].isRequired

\* Two parameters, the second optional with an empty-string default.
C3_Witness ==
    /\ C3_LegacyPositional
    /\ Len(params) = 2
    /\ params[1].name # params[2].name
    /\ ~operation.parameters[2].isRequired
    /\ operation.parameters[2].default = [kind |-> "string", val |-> ""]
    /\ params[2].isRequired

\* ------------------------------------------------------------------------ C4

C4_Called ==
    /\ "toOperationReturnType" \in called
    /\ ~isStandaloneClient(config)

C4_Async == IF config.client = "angular" THEN "Observable" ELSE "CancelablePromise"

C4_Response ==
    [ kind |-> "union",
      types |-> <<uniqueTypeName(client, OperationMeta(operation), "Response")>> ]

C4_Void == [kind |-> "basic", name |-> "void", args |-> <<>>]

C4_Inner == IF Len(operation.results) > 0 THEN C4_Response ELSE C4_Void

C4_Wrap(name, type) == [kind |-> "basic", name |-> name, args |-> <<type>>]

\* C4 (as amended): for every non-standalone configuration the type is layered
\* union -> result-wrapper -> async-wrapper, where the innermost type is the
\* response union with at least one declared result and `void` with none, the
\* ApiResult layer is present exactly when useOptions is on and
\* services.response = 'response' (with or without declared results), and
\* exactly one async-wrapper (Observable for angular, CancelablePromise
\* otherwise) is the outermost layer.
C4_Layering ==
    C4_Called =>
        returnType =
            C4_Wrap(C4_Async,
                    IF config.useOptions /\ config.services.response = "response"
                    THEN C4_Wrap("ApiResult", C4_Inner)
                    ELSE C4_Inner)

\* C4 as first stated: the ApiResult layer follows services.response alone,
\* and zero declared results give a plain Async<void>.
C4_Original ==
    C4_Called =>
        returnType =
            C4_Wrap(C4_Async,
                    IF Len(operation.results) = 0
                    THEN C4_Void
                    ELSE IF config.services.response = "response"
                    THEN C4_Wrap("ApiResult", C4_Response)
                    ELSE C4_Response)

\* No declared results, full response with useOptions: ApiResult wraps void.
C4_Witness ==
    /\ C4_Called
    /\ Len(operation.results) = 0
    /\ returnType = C4_Wrap("CancelablePromise", C4_Wrap("ApiResult", C4_Void))

\* ------------------------------------------------------------------------ C5

C5_Called ==
    /\ "toOperationStatements" \in called
    /\ isStandaloneClient(config)

C5_ErrorName == uniqueTypeName(client, OperationMeta(operation), "Error")

C5_ResponseName == uniqueTypeName(client, OperationMeta(operation), "Response")

C5_Types == statements[1].types

\* C5 (as amended): under the standalone style the response type is `void`
\* when the operation declares no results and the resolver's response name
\* otherwise; the call's type arguments are [responseType, errorType] when both
\* are non-empty, [unknown, errorType] when the response type is empty (results
\* declared, no response name) but an error type exists, [responseType] when
\* there is a response type but no error type, and empty only when results are
\* declared and neither name exists.
C5_TypeArguments ==
    C5_Called =>
        /\ Len(statements) = 1
        /\ LET responseType ==
                   IF Len(operation.results) = 0 THEN "void" ELSE C5_ResponseName
           IN  C5_Types =
                   IF C5_ErrorName # "" /\ responseType # ""
                   THEN <<responseType, C5_ErrorName>>
                   ELSE IF C5_ErrorName # ""
                   THEN <<"unknown", C5_ErrorName>>
                   ELSE IF responseType # ""
                   THEN <<responseType>>
                   ELSE <<>>

\* C5 as first stated: an operation without declared results has no response
\* type.
C5_Original ==
    C5_Called =>
        /\ Len(statements) = 1
        /\ LET hasResponse == Len(operation.results) > 0 /\ C5_ResponseName # ""
           IN  C5_Types =
                   IF C5_ErrorName # "" /\ hasResponse
                   THEN <<C5_ResponseName, C5_ErrorName>>
                   ELSE IF C5_ErrorName # ""
                   THEN <<"unknown", C5_ErrorName>>
                   ELSE IF hasResponse
                   THEN <<C5_ResponseName>>
                   ELSE <<>>

\* No declared results and an error type: the arguments are [void, error].
C5_Witness ==
    /\ C5_Called
    /\ Len(operation.results) = 0
    /\ C5_Types = <<"void", "GetUserError">>

\* ------------------------------------------------------------------------ C6

C6_Called ==
    /\ "toRequestOptions" \in called
    /\ ~isStandaloneClient(config)

C6_KeyOrder ==
    << "method", "url", "path", "cookies", "headers", "query", "formData",
       "body", "mediaType", "responseHeader", "errors" >>

\* Whether the source of a key is non-empty.
C6_HasSource(key) ==
    LET body == operation.parametersBody
    IN  CASE key \in {"method", "url"} -> TRUE
          [] key = "path" -> operation.parametersPath # <<>>
          [] key = "cookies" -> operation.parametersCookie # <<>>
          [] key = "headers" -> operation.parametersHeader # <<>>
          [] key = "query" -> operation.parametersQuery # <<>>
          [] key = "formData" ->
                \/ operation.parametersForm # <<>>
                \/ (body # Null /\ body.in = "formData")
          [] key = "body" -> body # Null /\ body.in = "body"
          [] key = "mediaType" ->
                body # Null /\ body.mediaType \notin {Undefined, NullString, ""}
          [] key = "responseHeader" ->
                operation.responseHeader \notin {Undefined, NullString, ""}
          [] key = "errors" -> operation.errors # <<>>

C6_Keys == [i \in 1..Len(options.obj) |-> options.obj[i].key]

C6_NonEmpty(value) ==
    IF value.kind = "string" THEN value.text # "" ELSE value.props # <<>>

\* C6: under every non-standalone style method and url are always present,
\* each other key is present iff its source is non-empty, no present key holds
\* an empty value, and the present keys appear in the relative order method,
\* url, path, cookies, headers, query, formData, body, mediaType,
\* responseHeader, errors.
C6_RequestOptions ==
    C6_Called =>
        /\ C6_Keys = SelectSeq(C6_KeyOrder, C6_HasSource)
        /\ \A i \in 1..Len(options.obj) : C6_NonEmpty(options.obj[i].value)

\* Every key is present at once.
C6_Witness ==
    /\ C6_Called
    /\ C6_Keys = C6_KeyOrder
    /\ operation.parametersBody # Null
    /\ operation.parametersForm # <<>>

\* ------------------------------------------------------------------------ C7

RECURSIVE C7_Flatten(_)
\* The concatenation of a sequence of sequences.
C7_Flatten(ss) == IF ss = <<>> THEN <<>> ELSE Head(ss) \o C7_Flatten(Tail(ss))

\* Every operation of the input: services in input order, operations in input
\* order.
C7_AllOperations ==
    C7_Flatten([i \in 1..Len(client.services) |-> client.services[i].operations])

C7_Resolved(op, suffix) == uniqueTypeName(client, OperationMeta(op), suffix)

C7_If(condition, name) == IF condition /\ name # "" THEN <<name>> ELSE <<>>

\* The onImport callbacks of one operation: Data, then Error, then Response.
C7_Callbacks(op) ==
    C7_If(Len(op.parameters) > 0, C7_Resolved(op, "Data"))
        \o C7_If(isStandaloneClient(config), C7_Resolved(op, "Error"))
        \o C7_If(Len(op.results) > 0, C7_Resolved(op, "Response"))

C7_Forwarded ==
    C7_Flatten([i \in 1..Len(C7_AllOperations) |-> C7_Callbacks(C7_AllOperations[i])])

C7_First(s, x) == CHOOSE i \in 1..Len(s) : s[i] = x /\ \A j \in 1..(i - 1) : s[j] # x

\* The names of the items of the last addImport call.
C7_LastImport(calls) ==
    [i \in 1..Len(calls[Len(calls)].items) |-> calls[Len(calls)].items[i].name]

\* A run has ended and has imported from the types file.
C7_Imported ==
    /\ pc.phase = "done"
    /\ files.services # Null
    /\ files.types # Null
    /\ ~files.types.isEmpty

\* C7: the list of type names imported from the types file contains each
\* forwarded name exactly once, ordered by first occurrence in the sequence of
\* onImport callbacks (services in input order, operations in input order,
\* Data then Error then Response per operation); a name appears only if the
\* resolver returned it, non-empty, for some (operation, suffix) pair; and a
\* second run on the same input imports the same list in the same order.
C7_ImportAggregation ==
    C7_Imported =>
        LET names == C7_LastImport(sink)
        IN  /\ \A i, j \in 1..Len(names) : i # j => names[i] # names[j]
            /\ {names[i] : i \in 1..Len(names)}
                  = {C7_Forwarded[i] : i \in 1..Len(C7_Forwarded)}
            /\ \A i, j \in 1..Len(names) :
                  i < j => C7_First(C7_Forwarded, names[i]) < C7_First(C7_Forwarded, names[j])
            /\ \A i \in 1..Len(names) :
                  /\ names[i] # ""
                  /\ \E k \in 1..Len(C7_AllOperations), s \in Suffixes :
                        C7_Resolved(C7_AllOperations[k], s) = names[i]
            /\ run = 2 => names = C7_LastImport(firstRun)

\* A second run over input that forwards a name more than once and imports at
\* least three names.
C7_Witness ==
    /\ C7_Imported
    /\ run = 2
    /\ Len(C7_Forwarded) > Len(C7_LastImport(sink))
    /\ Len(C7_LastImport(sink)) >= 3
    /\ isStandaloneClient(config)

\* ------------------------------------------------------------------------ C9

\* The nodes handed to add, in call order.
C9_Added ==
    LET adds == SelectSeq(sink, LAMBDA c : c.call = "add")
    IN  [i \in 1..Len(adds) |-> adds[i].node]

C9_Finished == pc.phase \in {"infrastructure", "types", "done"}

C9_IsPrefix(s, t) == Len(s) <= Len(t) /\ \A i \in 1..Len(s) : s[i] = t[i]

C9_Names(nodes) == [i \in 1..Len(nodes) |-> nodes[i].name]

C9_Methods(class) == SelectSeq(class.members, LAMBDA m : m.kind = "method")

C9_Constructors(class) == SelectSeq(class.members, LAMBDA m : m.kind = "constructor")

\* With the aggregate flag off: one exported callable per operation, in input
\* order, each the declaration of its own operation.
C9_Functions ==
    LET expected == [i \in 1..Len(C7_AllOperations) |->
                        OperationConst(config, client, C7_AllOperations[i])]
    IN  /\ C9_IsPrefix(C9_Added, expected)
        /\ C9_Finished => C9_Added = expected
        /\ C9_Names(C9_Added)
              = [i \in 1..Len(C9_Added) |-> C7_AllOperations[i].name]

\* With the aggregate flag on: one class per service, in input order, its
\* methods in operation order after at most one constructor, placed first.
C9_Classes ==
    /\ Len(C9_Added) <= Len(client.services)
    /\ C9_Finished => Len(C9_Added) = Len(client.services)
    /\ \A i \in 1..Len(C9_Added) :
          LET class == C9_Added[i]
              service == client.services[i]
          IN  /\ class.kind = "class"
              /\ class.name = service.name \o "Service"
              /\ C9_Names(C9_Methods(class))
                    = [k \in 1..Len(service.operations) |-> service.operations[k].name]
              /\ C9_Methods(class)
                    = [k \in 1..Len(service.operations) |->
                          OperationMethod(config, client, service.operations[k])]
              /\ Len(C9_Constructors(class)) <= 1
              /\ Len(C9_Constructors(class)) = 1 => class.members[1].kind = "constructor"

\* C9: with services.asClass off, add is called exactly once per operation, in
\* service input order and within a service in operation input order, each
\* declaration computed from its own operation; with the flag on, add is
\* called exactly once per service in service input order, the methods in
\* operation input order, preceded by at most one constructor placed first;
\* every add call happens before any addImport call.
C9_EmissionOrder ==
    /\ files # Null /\ files.services = Null => sink = <<>>
    /\ files # Null /\ files.services # Null =>
          /\ IF config.services.asClass THEN C9_Classes ELSE C9_Functions
          /\ \A i, j \in 1..Len(sink) :
                i < j => ~(sink[i].call = "addImport" /\ sink[j].call = "add")

\* Two services as classes, the first with two differently named methods
\* behind its constructor, and the imports added after them.
C9_Witness ==
    /\ pc.phase = "done"
    /\ config.services.asClass
    /\ Len(C9_Added) = 2
    /\ Len(C9_Constructors(C9_Added[1])) = 1
    /\ Len(C9_Methods(C9_Added[1])) = 2
    /\ C9_Methods(C9_Added[1])[1].name # C9_Methods(C9_Added[1])[2].name
    /\ Len(sink) > 2

\* ----------------------------------------------------------------------- C10

\* Whether a callable's statement references the injected handle this.<handle>.
C10_References(statementList, handle) ==
    \E i \in 1..Len(statementList) :
        \/ handle = "httpRequest" /\ statementList[i].name = "this.httpRequest.request"
        \/ /\ handle = "http"
           /\ \E k \in 1..Len(statementList[i].args) :
                 statementList[i].args[k] = Identifier("this.http")

C10_Handles == {"httpRequest", "http"}

\* C10: whenever an emitted statement references an injected instance handle
\* (this.httpRequest or this.http), the operation is a non-static method of a
\* class whose constructor declares a parameter with that handle name; no
\* free-standing callable and no static method references `this`.
C10_InjectedHandle ==
    \A i \in 1..Len(C9_Added) :
        LET node == C9_Added[i]
        IN  IF node.kind = "const"
            THEN \A h \in C10_Handles : ~C10_References(node.expression.statements, h)
            ELSE \A k \in 1..Len(node.members) :
                    node.members[k].kind = "method" =>
                        \A h \in C10_Handles :
                            C10_References(node.members[k].statements, h) =>
                                /\ ~node.members[k].isStatic
                                /\ node.members[1].kind = "constructor"
                                /\ node.members[1].parameters[1].name = h

\* ------------------------------------------------------------------------ C8

C8_Called ==
    {"toOperationParamType", "toRequestOptions", "toOperationStatements"}
        \subseteq called

C8_OptionsTypes == {"Options"} \cup {"Options<" \o t \o ">" : t \in TypeNames}

C8_StandaloneParams ==
    /\ Len(params) = 1
    /\ params[1].name = "options"
    /\ params[1].type \in C8_OptionsTypes

C8_StandaloneCall ==
    /\ Len(statements) = 1
    /\ statements[1].name
          \in {"(options?.client ?? client)." \o v : v \in {"get", "post", "delete"}}

C8_SpreadsOptions ==
    \E i \in 1..Len(options.obj) : options.obj[i] = [spread |-> "options"]

\* C8: for every configuration and every operation, toOperationParamType
\* returns the standalone single `options` parameter if and only if
\* toOperationStatements emits the standalone transport-handle call and
\* toRequestOptions spreads `options`; a standalone parameter list is never
\* paired with a `this.httpRequest.request` or `__request` statement, and a
\* legacy parameter list is never paired with the standalone call.
C8_StyleAgreement ==
    C8_Called =>
        /\ C8_StandaloneParams <=> (C8_StandaloneCall /\ C8_SpreadsOptions)
        /\ C8_StandaloneCall <=> C8_SpreadsOptions
        /\ C8_StandaloneParams =>
              statements[1].name \notin {"this.httpRequest.request", "__request"}
        /\ ~C8_StandaloneParams => ~C8_StandaloneCall

\* A standalone client configured with a custom handle-class name.
C8_Witness ==
    /\ C8_Called
    /\ config.name = "ApiClient"
    /\ C8_StandaloneParams
    /\ C8_StandaloneCall

====
